---- MODULE Spec2Model ----
(***************************************************************************)
(* Model of shapash/utils/check.py: the validation functions that are run  *)
(* before an explainer or a predictor is built.  Every function is pure:   *)
(* a call takes caller-owned objects and either returns a value or raises. *)
(* A behaviour of the model is one call: Init draws the function and its   *)
(* arguments, the function's action runs the whole body and records the    *)
(* outcome.                                                                *)
(***************************************************************************)
EXTENDS Integers, Sequences, FiniteSets

VARIABLES pc, fn, arg, res

vars == <<pc, fn, arg, res>>

(***************************************************************************)
(* Bounds of the model.                                                    *)
(***************************************************************************)
MaxClasses == 2   \* longest class list of a model / key list of a label_dict
MaxLabel == 2     \* class labels are 0..MaxLabel
MaxRows == 2      \* longest row index of x and ypred
MaxContrib == 3   \* longest list of contributions
MaxCols == 2      \* longest columns_dict / list of model features
MaxHide == 1      \* longest features_to_hide list
MaxPrep == 2      \* longest list of transformers in a preprocessing
MaxYCols == 2     \* most columns of a ypred table

(***************************************************************************)
(* Python values.  A value is a record [k, v]: k is the runtime type and v *)
(* the payload (a sequence; empty for None).                               *)
(***************************************************************************)
Range(s) == {s[i] : i \in DOMAIN s}

SeqsUpTo(S, n) == UNION {[1..m -> S] : m \in 0..n}

None == [k |-> "None", v |-> <<>>]

PyList(s) == [k |-> "list", v |-> s]

PyArray(s) == [k |-> "ndarray", v |-> s]

PyTuple(s) == [k |-> "tuple", v |-> s]

PyInt(n) == [k |-> "int", v |-> <<n>>]

PyStr(s) == [k |-> "str", v |-> <<s>>]

PyBool(b) == [k |-> "bool", v |-> <<b>>]

\* Python ==, between values of the kinds above: same type and same payload
\* (a list never equals None, a tuple or a number).
PyEq(a, b) == a.k = b.k /\ a.v = b.v

\* Python "x in container" for a tuple or a list: x equals one of the elements.
contains(container, x) == \E i \in DOMAIN container.v : PyEq(container.v[i], x)

\* An attribute a model does not have.
Absent == [k |-> "absent", v |-> <<>>]

hasattr(value) == value.k # "absent"

\* numpy.ndarray.tolist(): the same elements in the same order, as a list.
tolist(a) == PyList(a.v)

\* The outcome of a call.
Return(value) == [outcome |-> "return", error |-> "", value |-> value]

Raise(message) == [outcome |-> "raise", error |-> message, value |-> None]

NoResult == [outcome |-> "none", error |-> "", value |-> None]

(***************************************************************************)
(* check_model                                                             *)
(***************************************************************************)
Labels == 0..MaxLabel

ClassLists == SeqsUpTo(Labels, MaxClasses)

\* What a class-set attribute of a model can hold.
ClassValues == {None} \cup {PyList(s) : s \in ClassLists} \cup {PyArray(s) : s \in ClassLists}

Models == [predict : BOOLEAN, predict_proba : BOOLEAN,
           classes_ : {Absent} \cup ClassValues,
           _classes : {Absent} \cup ClassValues]

\* Lines 47-48: _classes is read first and classes_ overwrites it, so classes_
\* is preferred when the model has both.
read_classes_mut_prefer_private(model) ==
    IF hasattr(model._classes) THEN model._classes
    ELSE IF hasattr(model.classes_) THEN model.classes_ ELSE None

read_classes(model) ==
    LET c1 == IF hasattr(model._classes) THEN model._classes ELSE None
    IN  IF hasattr(model.classes_) THEN model.classes_ ELSE c1

\* Line 55: _classes not in (None, []).
has_classes_mut_none_only(c) == ~PyEq(c, None)

has_classes(c) == ~(PyEq(c, None) \/ PyEq(c, PyList(<<>>)))

check_model(model) ==
    IF model.predict
    THEN LET classification == model.predict_proba \/ hasattr(model.classes_)
                                   \/ hasattr(model._classes)
             c2 == IF classification THEN read_classes(model) ELSE None
             c3 == IF classification /\ c2.k = "ndarray" THEN tolist(c2) ELSE c2
             c4 == IF classification /\ model.predict_proba /\ PyEq(c3, PyList(<<>>))
                   THEN PyList(<<0, 1>>) ELSE c3
         IN  IF classification /\ model.predict_proba /\ PyEq(c4, None)
             THEN Raise("No attribute _classes, classification model not supported")
             ELSE IF has_classes(c4)
                  THEN Return(PyTuple(<<"classification", c4>>))
                  ELSE Return(PyTuple(<<"regression", None>>))
    ELSE Raise("No method predict in the specified model. Please, check model parameter")

(***************************************************************************)
(* check_label_dict                                                        *)
(***************************************************************************)
\* Python set(iterable) of a list, of a tuple or of a dict's key list.
PySet(s) == Range(s)

\* A dict is modelled by the list of its keys, in insertion order.
PyDict(keys) == [k |-> "dict", v |-> keys]

Injective(s) == \A i, j \in DOMAIN s : s[i] = s[j] => i = j

LabelDicts == {None} \cup {PyDict(s) : s \in {t \in ClassLists : Injective(t)}}

Cases == {"classification", "regression"}

ClassArgs == {None} \cup {PyList(s) : s \in ClassLists}

check_label_dict_mut_ordered(label_dict, case, classes) ==
    IF ~PyEq(label_dict, None) /\ case = "classification"
    THEN IF classes.k = "None"
         THEN Raise("TypeError: 'NoneType' object is not iterable")
         ELSE IF classes.v # label_dict.v
              THEN Raise("label_dict and don't match")
              ELSE Return(None)
    ELSE Return(None)

check_label_dict(label_dict, case, classes) ==
    IF ~PyEq(label_dict, None) /\ case = "classification"
    THEN IF classes.k = "None"
         THEN Raise("TypeError: 'NoneType' object is not iterable")
         ELSE IF PySet(classes.v) # PySet(label_dict.v)
              THEN Raise("label_dict and don't match")
              ELSE Return(None)
    ELSE Return(None)

(***************************************************************************)
(* check_mask_params                                                       *)
(***************************************************************************)
conform_arguments == {"features_to_hide", "threshold", "positive", "max_contrib"}

\* The keys a caller may write: the four options and a misspelt one (the
\* error message of the function itself spells it "feature_to_hide").
MaskKeys == conform_arguments \cup {"feature_to_hide"}

Features == {"age", "job"}

HideValues == {None} \cup {PyList(s) : s \in SeqsUpTo(Features, MaxHide)}

\* The values of the other options: unset, or a number.
OptionValues == {None, PyInt(1)}

\* A mapping is modelled by the set of its <<key, value>> items.
PyMap(items) == [k |-> "dict", v |-> items]

keys(mapping) == {item[1] : item \in mapping.v}

\* mapping[key] for a key of the mapping.
getitem(mapping, key) == (CHOOSE item \in mapping.v : item[1] = key)[2]

ValuesOf(key) == IF key = "features_to_hide" THEN HideValues ELSE OptionValues

MaskDictsOver(allowed) ==
    UNION {{PyMap({<<key, f[key]>> : key \in ks}) :
               f \in {g \in [ks -> HideValues \cup OptionValues] :
                         \A key \in ks : g[key] \in ValuesOf(key)}} :
           ks \in SUBSET allowed}

MaskDicts == MaskDictsOver(MaskKeys)

\* What is not a mapping: None, a list of keys.
NonDicts == {None, PyList(<<"threshold">>)}

isdict(value) == value.k = "dict"

\* The outcome, and the mapping as the caller finds it after the call.
MaskOutcome(r, mask_params) ==
    [outcome |-> r.outcome, error |-> r.error, value |-> r.value, mask_params |-> mask_params]

\* A variant that fills in the options the caller left out.
check_mask_params_mut_fill_defaults(mask_params) ==
    IF ~isdict(mask_params)
    THEN MaskOutcome(Raise("mask_params must be a dict"), mask_params)
    ELSE LET mask_arguments_not_conform ==
                 {argument \in keys(mask_params) : argument \notin conform_arguments}
         IN  IF Cardinality(mask_arguments_not_conform) # 0
             THEN MaskOutcome(Raise("mask_params must only have the following key arguments"),
                              mask_params)
             ELSE MaskOutcome(Return(None),
                      PyMap(mask_params.v \cup
                            {<<key, None>> : key \in conform_arguments \ keys(mask_params)}))

check_mask_params(mask_params) ==
    IF ~isdict(mask_params)
    THEN MaskOutcome(Raise("mask_params must be a dict"), mask_params)
    ELSE LET mask_arguments_not_conform ==
                 {argument \in keys(mask_params) : argument \notin conform_arguments}
         IN  IF Cardinality(mask_arguments_not_conform) # 0
             THEN MaskOutcome(Raise("mask_params must only have the following key arguments"),
                              mask_params)
             ELSE MaskOutcome(Return(None), mask_params)

(***************************************************************************)
(* check_contribution_object                                               *)
(***************************************************************************)
\* The elements of a list of contributions: tables, or anything else.
ElementKinds == {"DataFrame", "str"}

Contributions ==
    {None, [k |-> "ndarray", v |-> <<>>], [k |-> "DataFrame", v |-> <<>>],
     [k |-> "Series", v |-> <<>>]}
    \cup {PyList(s) : s \in SeqsUpTo(ElementKinds, MaxContrib)}

regression_message == "Type of contributions parameter specified is not compatible with regression model."

length_message == "Length of list of contributions parameter is not equal to the number of classes in the target."

classification_message == "Type of contributions parameter specified is not compatible with classification model."

\* Line 156: isinstance(contributions, (np.ndarray, pd.DataFrame)).
is_array_or_table(contributions) == contributions.k \in {"ndarray", "DataFrame"}

\* Line 166: len(contributions) != len(classes).
length_differs_mut_shorter(contributions, classes) == Len(contributions.v) < Len(classes.v)

length_differs(contributions, classes) == Len(contributions.v) # Len(classes.v)

check_contribution_object(case, classes, contributions) ==
    IF case = "regression" /\ ~is_array_or_table(contributions)
    THEN Raise(regression_message)
    ELSE IF case = "classification"
         THEN IF contributions.k = "list"
              THEN IF classes.k = "None"
                   THEN Raise("TypeError: object of type 'NoneType' has no len()")
                   ELSE IF length_differs(contributions, classes)
                        THEN Raise(length_message)
                        ELSE Return(None)
              ELSE Raise(classification_message)
         ELSE Return(None)

(***************************************************************************)
(* check_ypred                                                             *)
(***************************************************************************)
RowLabels == {"r1", "r2"}

Indexes == SeqsUpTo(RowLabels, MaxRows)

\* The element types of a column.
Dtypes == {"int64", "float64", "float32", "object"}

\* The payload of a column, kept apart from its index and element type.
Data == {"v1", "v2"}

\* A pandas object: id tells the caller's object from one made by the call,
\* dtypes holds one element type per column (exactly one for a Series).
Pandas(kind, id, index, dtypes, data) ==
    [k |-> kind, id |-> id, index |-> index, dtypes |-> dtypes, data |-> data]

NotPandas(kind) == Pandas(kind, "caller", <<>>, <<>>, "v1")

Tables == {Pandas("DataFrame", "caller", i, d, v) :
              i \in Indexes, d \in SeqsUpTo(Dtypes, MaxYCols), v \in Data}

SeriesSet == {Pandas("Series", "caller", i, <<d>>, v) :
                 i \in Indexes, d \in Dtypes, v \in Data}

Ypreds == {NotPandas("None"), NotPandas("list")} \cup SeriesSet \cup Tables

Xs == {Pandas("DataFrame", "caller", i, <<"float64">>, "v1") : i \in Indexes}

\* pandas.Index.equals: the same labels in the same order.
index_equals_mut_same_labels(a, b) == Range(a) = Range(b)

index_equals(a, b) == Len(a) = Len(b) /\ \A i \in DOMAIN a : a[i] = b[i]

\* Lines 134 and 137: dtype in [np.float, np.int].  np.float and np.int are the
\* builtin float and int, which numpy reads as float64 and int64.
dtype_in_float_int(dtype) == dtype \in {"float64", "int64"}

\* Line 132: ypred.shape[1] > 1.
too_many_columns(ypred) == Len(ypred.dtypes) > 1

\* pandas.Series.to_frame(): a new one-column table over the same index and data.
to_frame(series) ==
    Pandas("DataFrame", "new", series.index, <<series.dtypes[1]>>, series.data)

\* The outcome, and the object the caller passed as the caller finds it afterwards
\* (line 139 rebinds the local name only).
YpredOutcome(r, ypred) ==
    [outcome |-> r.outcome, error |-> r.error, value |-> r.value, ypred |-> ypred]

one_column_message == "y_pred must be a one column pd.Dataframe or pd.Series."

index_message == "x and y_pred should have the same index."

dtype_message == "y_pred must contain int or float only"

check_ypred(x, ypred) ==
    IF ypred.k # "None"
    THEN IF ypred.k \notin {"DataFrame", "Series"}
         THEN YpredOutcome(Raise(one_column_message), ypred)
         ELSE IF ~index_equals(ypred.index, x.index)
         THEN YpredOutcome(Raise(index_message), ypred)
         ELSE IF ypred.k = "DataFrame"
         THEN IF too_many_columns(ypred)
              THEN YpredOutcome(Raise(one_column_message), ypred)
              ELSE IF Len(ypred.dtypes) = 0
              THEN YpredOutcome(Raise("IndexError: index 0 is out of bounds"), ypred)
              ELSE IF ~dtype_in_float_int(ypred.dtypes[1])
              THEN YpredOutcome(Raise(dtype_message), ypred)
              ELSE YpredOutcome(Return(ypred), ypred)
         ELSE IF ~dtype_in_float_int(ypred.dtypes[1])
              THEN YpredOutcome(Raise(dtype_message), ypred)
              ELSE YpredOutcome(Return(to_frame(ypred)), ypred)
    ELSE YpredOutcome(Return(ypred), ypred)

(***************************************************************************)
(* check_preprocessing                                                     *)
(***************************************************************************)
\* str(type(obj)) of the transformers a preprocessing is made of.
ce_ordinal == "<class 'category_encoders.ordinal.OrdinalEncoder'>"

ce_binary == "<class 'category_encoders.binary.BinaryEncoder'>"

sk_ordinal == "<class 'sklearn.preprocessing._encoders.OrdinalEncoder'>"

sk_scaler == "<class 'sklearn.preprocessing._data.StandardScaler'>"

sk_onehot == "<class 'sklearn.preprocessing._encoders.OneHotEncoder'>"

sk_columntransformer == "<class 'sklearn.compose._column_transformer.ColumnTransformer'>"

TransformerTypes == {ce_ordinal, sk_ordinal, sk_scaler, sk_onehot, sk_columntransformer}

\* The reference sets of recognised type names, one per family: each a tuple of
\* type names.
no_dummies_category_encoder == PyTuple(<<PyStr(ce_ordinal), PyStr(ce_binary)>>)

no_dummies_sklearn == PyTuple(<<PyStr(sk_ordinal), PyStr(sk_scaler)>>)

columntransformer == PyTuple(<<PyStr(sk_columntransformer)>>)

Transformer(type) == [k |-> type, v |-> <<>>]

Preprocessings ==
    {None} \cup {Transformer(t) : t \in TransformerTypes}
           \cup {PyList(s) : s \in SeqsUpTo(TransformerTypes, MaxPrep)}

\* The preprocessing as an ordered sequence of the type names of its transformers.
preprocessing_tolist(preprocessing) ==
    IF preprocessing.k = "list" THEN preprocessing.v ELSE <<preprocessing.k>>

\* The two flags: a combining transformer is used, a category encoder is used.
check_transformers(list_preprocessing) ==
    <<PyBool(\E i \in DOMAIN list_preprocessing :
                 contains(columntransformer, PyStr(list_preprocessing[i]))),
      PyBool(\E i \in DOMAIN list_preprocessing :
                 contains(no_dummies_category_encoder, PyStr(list_preprocessing[i])))>>

check_preprocessing(preprocessing) ==
    IF preprocessing.k # "None"
    THEN LET list_preprocessing == preprocessing_tolist(preprocessing)
             flags == check_transformers(list_preprocessing)
         IN  Return(PyTuple(<<flags[1], flags[2]>>))
    ELSE Return(None)

(***************************************************************************)
(* check_consistency_model_features                                        *)
(***************************************************************************)
\* features_dict and features_types: only their keys are read.
KeyDict(ks) == [k |-> "dict", v |-> ks]

FeaturesDicts == {None} \cup {KeyDict(ks) : ks \in SUBSET Features}

FeaturesTypes == {KeyDict(ks) : ks \in SUBSET Features}

\* columns_dict maps the positions 0, 1, ... to feature names: the sequence of
\* its values.
ColumnsDicts == {PyDict(s) : s \in SeqsUpTo(Features, MaxCols)}

\* str(type(model)) of the models: two that the registry knows, one it does not.
lgbm_classifier == "<class 'lightgbm.sklearn.LGBMClassifier'>"

random_forest == "<class 'sklearn.ensemble._forest.RandomForestClassifier'>"

unregistered_model == "<class 'builtins.object'>"

\* The registry: model type -> the attribute that holds the model's features
\* (a list of names for some model types, a count for the others).
dict_model_feature ==
    [t \in {lgbm_classifier, random_forest} |->
        IF t = lgbm_classifier THEN "feature_name_" ELSE "n_features_"]

FittedModels ==
    {[type |-> lgbm_classifier, feature_name_ |-> s, n_features_ |-> 0] :
        s \in SeqsUpTo(Features, MaxCols)}
    \cup {[type |-> random_forest, feature_name_ |-> <<>>, n_features_ |-> n] :
             n \in 0..MaxCols}
    \cup {[type |-> unregistered_model, feature_name_ |-> <<>>, n_features_ |-> 0]}

\* The model's expected features: a list of names or a count.
extract_features_model(model, attribute) ==
    IF attribute = "feature_name_" THEN PyList(model.feature_name_)
    ELSE PyInt(model.n_features_)

\* str(type(obj)).
type_name(obj) ==
    CASE obj.k = "None" -> "<class 'NoneType'>"
      [] obj.k = "list" -> "<class 'list'>"
      [] OTHER -> obj.k

\* The outcome of the call and the gates it evaluated, in order: 1 features_dict,
\* 2 features_types, 3 mask_params, 4 the lookup of the model's features,
\* 5 the comparison by preprocessing type, 6 the comparison with a count.
Gates(r, gates) ==
    [outcome |-> r.outcome, error |-> r.error, value |-> r.value, gates |-> gates]

features_dict_message == "All features of features_dict must be in features_types"

features_types_message == "features of features_types and model must be the same"

mask_params_message == "All features of mask_params must be in model"

same_features_message == "features of columns_dict and model must be the same"

same_length_list_message == "length of features of columns_dict and model must be the same"

unsupported_encoder_message == "this type of encoder is not supported in SmartPredictor"

same_length_count_message == "features of columns_dict and model must have the same length"

\* Lines 214-225: the model's features are a list of names.
compare_with_names(columns_dict, model_features, preprocessing) ==
    LET t == PyStr(type_name(preprocessing))
    IN  IF contains(no_dummies_category_encoder, t)
        THEN IF PySet(columns_dict.v) # PySet(model_features.v)
             THEN Raise(same_features_message) ELSE Return(None)
        ELSE IF contains(PyTuple(<<no_dummies_sklearn, columntransformer>>), t)
        THEN IF Cardinality(PySet(columns_dict.v)) # Cardinality(PySet(model_features.v))
             THEN Raise(same_length_list_message) ELSE Return(None)
        ELSE IF ~contains(PyTuple(<<no_dummies_category_encoder, no_dummies_sklearn,
                                    columntransformer>>), t)
                /\ preprocessing.k # "None"
        THEN Raise(unsupported_encoder_message)
        ELSE Return(None)

\* Lines 227-230: the model's features are a count.
compare_with_count(columns_dict, model_features) ==
    IF Cardinality(PySet(columns_dict.v)) # model_features.v[1]
    THEN Raise(same_length_count_message) ELSE Return(None)

\* Line 202: every key of features_dict is a key of features_types.
features_dict_fails(features_dict, features_types) ==
    features_dict.k # "None" /\ ~(\A feat \in features_dict.v : feat \in features_types.v)

\* Line 205: set(features_types) != set(columns_dict.values()).
features_types_fails(features_types, columns_dict) ==
    features_types.v # PySet(columns_dict.v)

\* Lines 201-211 with the two dictionary comparisons in the other order.
check_dictionaries_mut_types_first(features_dict, columns_dict, features_types, mask_params) ==
    IF features_types_fails(features_types, columns_dict)
    THEN Gates(Raise(features_types_message), <<2>>)
    ELSE IF features_dict_fails(features_dict, features_types)
    THEN Gates(Raise(features_dict_message), <<2, 1>>)
    ELSE IF mask_params.k # "None" /\ ~isdict(mask_params)
    THEN Gates(Raise("TypeError: indices must be integers"), <<2, 1, 3>>)
    ELSE IF mask_params.k # "None" /\ "features_to_hide" \notin keys(mask_params)
    THEN Gates(Raise("KeyError: 'features_to_hide'"), <<2, 1, 3>>)
    ELSE IF /\ mask_params.k # "None"
            /\ getitem(mask_params, "features_to_hide").k # "None"
            /\ ~(\A feature \in PySet(getitem(mask_params, "features_to_hide").v) :
                    feature \in features_types.v)
    THEN Gates(Raise(mask_params_message), <<2, 1, 3>>)
    ELSE Gates(Return(None), <<2, 1, 3>>)

\* Lines 201-211: the three comparisons between the dictionaries.
check_dictionaries(features_dict, columns_dict, features_types, mask_params) ==
    IF features_dict_fails(features_dict, features_types)
    THEN Gates(Raise(features_dict_message), <<1>>)
    ELSE IF features_types_fails(features_types, columns_dict)
    THEN Gates(Raise(features_types_message), <<1, 2>>)
    ELSE IF mask_params.k # "None" /\ ~isdict(mask_params)
    THEN Gates(Raise("TypeError: indices must be integers"), <<1, 2, 3>>)
    ELSE IF mask_params.k # "None" /\ "features_to_hide" \notin keys(mask_params)
    THEN Gates(Raise("KeyError: 'features_to_hide'"), <<1, 2, 3>>)
    ELSE IF /\ mask_params.k # "None"
            /\ getitem(mask_params, "features_to_hide").k # "None"
            /\ ~(\A feature \in PySet(getitem(mask_params, "features_to_hide").v) :
                    feature \in features_types.v)
    THEN Gates(Raise(mask_params_message), <<1, 2, 3>>)
    ELSE Gates(Return(None), <<1, 2, 3>>)

check_consistency_model_features(features_dict, model, columns_dict, features_types, mask_params, preprocessing) ==
    LET dictionaries ==
            check_dictionaries(features_dict, columns_dict, features_types, mask_params)
    IN  IF dictionaries.outcome = "raise"
        THEN dictionaries
        ELSE IF model.type \notin DOMAIN dict_model_feature
        THEN Gates(Raise("KeyError: str(type(model))"), dictionaries.gates \o <<4>>)
        ELSE LET model_features ==
                     extract_features_model(model, dict_model_feature[model.type])
             IN  IF model_features.k = "list"
                 THEN Gates(compare_with_names(columns_dict, model_features, preprocessing),
                            dictionaries.gates \o <<4, 5>>)
                 ELSE Gates(compare_with_count(columns_dict, model_features),
                            dictionaries.gates \o <<4, 6>>)

\* The masks and preprocessings the calls of check_consistency_model_features
\* are drawn from: None, what is not a mapping, and mappings with and without
\* features_to_hide, another option and a misspelt key.
OneValue(m) == \A item \in m.v : item[1] # "features_to_hide" => item[2] = PyInt(1)

ConsistencyMasks ==
    NonDicts \cup {m \in MaskDictsOver({"features_to_hide", "threshold", "feature_to_hide"}) :
                      OneValue(m)}

SinglePreprocessings ==
    {None} \cup {Transformer(t) : t \in TransformerTypes \ {sk_scaler}}

ConsistencyInputs ==
    [features_dict : FeaturesDicts, model : FittedModels, columns_dict : ColumnsDicts,
     features_types : FeaturesTypes, mask_params : ConsistencyMasks,
     preprocessing : SinglePreprocessings]

(***************************************************************************)
(* The calls.                                                              *)
(***************************************************************************)
Inputs(f) ==
    CASE f = "check_model" -> [model : Models]
      [] f = "check_label_dict" ->
            [label_dict : LabelDicts, case : Cases, classes : ClassArgs]
      [] f = "check_mask_params" -> [mask_params : MaskDicts \cup NonDicts]
      [] f = "check_contribution_object" ->
            [case : Cases, classes : ClassArgs, contributions : Contributions]
      [] f = "check_ypred" -> [x : Xs, ypred : Ypreds]
      [] f = "check_preprocessing" -> [preprocessing : Preprocessings]
      [] f = "check_consistency_model_features" -> ConsistencyInputs

Functions ==
    {"check_model", "check_label_dict", "check_mask_params", "check_contribution_object",
     "check_ypred", "check_preprocessing"}

FeatureFunctions == {"check_consistency_model_features"}

InitOf(functions) ==
    /\ pc = "ready"
    /\ res = NoResult
    /\ fn \in functions
    /\ arg \in Inputs(fn)

Init == InitOf(Functions)

InitFeatures == InitOf(FeatureFunctions)

CallCheckModel ==
    /\ pc = "ready" /\ fn = "check_model"
    /\ res' = check_model(arg.model)
    /\ pc' = "done"
    /\ UNCHANGED <<fn, arg>>

CallCheckLabelDict ==
    /\ pc = "ready" /\ fn = "check_label_dict"
    /\ res' = check_label_dict(arg.label_dict, arg.case, arg.classes)
    /\ pc' = "done"
    /\ UNCHANGED <<fn, arg>>

CallCheckMaskParams ==
    /\ pc = "ready" /\ fn = "check_mask_params"
    /\ res' = check_mask_params(arg.mask_params)
    /\ pc' = "done"
    /\ UNCHANGED <<fn, arg>>

CallCheckContributionObject ==
    /\ pc = "ready" /\ fn = "check_contribution_object"
    /\ res' = check_contribution_object(arg.case, arg.classes, arg.contributions)
    /\ pc' = "done"
    /\ UNCHANGED <<fn, arg>>

CallCheckYpred ==
    /\ pc = "ready" /\ fn = "check_ypred"
    /\ res' = check_ypred(arg.x, arg.ypred)
    /\ pc' = "done"
    /\ UNCHANGED <<fn, arg>>

CallCheckPreprocessing ==
    /\ pc = "ready" /\ fn = "check_preprocessing"
    /\ res' = check_preprocessing(arg.preprocessing)
    /\ pc' = "done"
    /\ UNCHANGED <<fn, arg>>

Next ==
    \/ CallCheckPreprocessing
    \/ CallCheckYpred
    \/ CallCheckModel
    \/ CallCheckLabelDict
    \/ CallCheckMaskParams
    \/ CallCheckContributionObject

CallCheckConsistency ==
    /\ pc = "ready" /\ fn = "check_consistency_model_features"
    /\ res' = check_consistency_model_features(arg.features_dict, arg.model,
                   arg.columns_dict, arg.features_types, arg.mask_params,
                   arg.preprocessing)
    /\ pc' = "done"
    /\ UNCHANGED <<fn, arg>>

NextFeatures ==
    \/ CallCheckConsistency

Spec == Init /\ [][Next]_vars

SpecFeatures == InitFeatures /\ [][NextFeatures]_vars

(***************************************************************************)
(* Properties.                                                             *)
(***************************************************************************)
Done(f) == pc = "done" /\ fn = f

\* The error kinds, by the messages the code raises them with.
UnsupportedModelError ==
    {"No attribute _classes, classification model not supported",
     "No method predict in the specified model. Please, check model parameter"}

Raised(errors) == res.outcome = "raise" /\ res.error \in errors

Returned(value) == res.outcome = "return" /\ PyEq(res.value, value)

\* The class set of a model: classes_ when the model has it, else _classes when
\* it has that, else None.
ClassSetOf(model) ==
    IF model.classes_.k # "absent" THEN model.classes_
    ELSE IF model._classes.k # "absent" THEN model._classes ELSE None

ExposesClassification(model) ==
    model.predict /\ (model.predict_proba \/ model.classes_.k # "absent"
                                          \/ model._classes.k # "absent")

EmptyClassSet(c) == c.k = "None" \/ c.v = <<>>

\* C1 as stated: check_model returns the kind 'classification', never
\* 'regression', for every model with predict that has predict_proba or a
\* class-set attribute, whatever the attribute holds.
C1_AlwaysClassification ==
    (Done("check_model") /\ ExposesClassification(arg.model) /\ res.outcome = "return")
        => res.value.v[1] = "classification"

\* C1 amended: for such a model a call that returns gives 'classification',
\* except on a model without predict_proba whose class set is None or empty (an
\* empty list or array): there it gives ('regression', None).
C1_ClassificationUnlessEmpty ==
    (Done("check_model") /\ ExposesClassification(arg.model) /\ res.outcome = "return")
        => IF ~arg.model.predict_proba /\ EmptyClassSet(ClassSetOf(arg.model))
           THEN Returned(PyTuple(<<"regression", None>>))
           ELSE res.value.v[1] = "classification"

C1_Witness ==
    /\ Done("check_model")
    /\ arg.model.predict /\ ~arg.model.predict_proba
    /\ arg.model.classes_ = PyList(<<>>)
    /\ arg.model._classes.k = "absent"
    /\ Returned(PyTuple(<<"regression", None>>))

\* C2: with predict and predict_proba, a non-empty class set R is returned as
\* ('classification', R), elements and order kept; an empty R gives
\* ('classification', [0, 1]); R = None raises the unsupported-model error.  A
\* model without predict raises it too, and a model with predict only gives
\* ('regression', None).
C2_CheckModelResult ==
    Done("check_model") =>
        LET model == arg.model
            R == ClassSetOf(model)
        IN  /\ ~model.predict => Raised(UnsupportedModelError)
            /\ (model.predict /\ model.predict_proba) =>
                   /\ (R.k # "None" /\ R.v # <<>>) =>
                          Returned(PyTuple(<<"classification", PyList(R.v)>>))
                   /\ (R.k # "None" /\ R.v = <<>>) =>
                          Returned(PyTuple(<<"classification", PyList(<<0, 1>>)>>))
                   /\ R.k = "None" => Raised(UnsupportedModelError)
            /\ (model.predict /\ ~ExposesClassification(model)) =>
                   Returned(PyTuple(<<"regression", None>>))

C2_Witness ==
    /\ Done("check_model")
    /\ arg.model.predict /\ arg.model.predict_proba
    /\ arg.model.classes_ = PyArray(<<1, 0>>)
    /\ arg.model._classes = PyList(<<2>>)
    /\ Returned(PyTuple(<<"classification", PyList(<<1, 0>>)>>))

\* C3 as stated: check_preprocessing always returns a pair, (None, None) when
\* no preprocessing is given and the two flags otherwise, and never raises.
C3_ReturnsPair ==
    Done("check_preprocessing") =>
        /\ res.outcome = "return"
        /\ res.value.k = "tuple"
        /\ Len(res.value.v) = 2
        /\ arg.preprocessing.k = "None" => PyEq(res.value, PyTuple(<<None, None>>))

\* Whether a type name is one of the names a reference set lists.
InFamily(family, preprocessing) ==
    \E i \in DOMAIN family.v : family.v[i].v[1] = type_name(preprocessing)

SameNames(a, b) == Range(a.v) = Range(b.v)

SameSize(a, b) == Cardinality(Range(a.v)) = Cardinality(Range(b.v))

\* C4 as stated: when the first three gates pass and the model's features are a
\* list of names, a category-encoder preprocessing passes iff the names of
\* columns_dict are the model's; a combining-transformer or no-dummy sklearn
\* preprocessing passes iff the two sets have the same size and otherwise raises
\* the length error; any other preprocessing that is not None raises the
\* unsupported-encoder error.
C4_ComparisonByFamily ==
    (Done("check_consistency_model_features") /\ res.gates = <<1, 2, 3, 4, 5>>) =>
        LET names == arg.model.feature_name_
            p == arg.preprocessing
        IN  IF InFamily(no_dummies_category_encoder, p)
            THEN res.outcome = "return" <=> SameNames(arg.columns_dict, PyList(names))
            ELSE IF InFamily(columntransformer, p) \/ InFamily(no_dummies_sklearn, p)
            THEN /\ res.outcome = "return" <=> SameSize(arg.columns_dict, PyList(names))
                 /\ res.outcome = "raise" => res.error = same_length_list_message
            ELSE p.k # "None" => Raised({unsupported_encoder_message})

NumericDtypes == {"int64", "float64", "float32"}

\* C5: check_ypred raises or returns; it returns None iff ypred is None; any
\* other value it returns is a table of exactly one column of integers or
\* floats over the index of x, so a table with another number of columns, an
\* index that differs from x's and an object that is neither a table nor a
\* series are never returned; a series comes back as a new one-column table with
\* its values and index, and the caller's object is left as it was.
C5_YpredResult ==
    Done("check_ypred") =>
        LET x == arg.x
            ypred == arg.ypred
            value == res.value
        IN  /\ res.outcome \in {"return", "raise"}
            /\ (res.outcome = "return" /\ value.k = "None") <=> ypred.k = "None"
            /\ (res.outcome = "return" /\ value.k # "None") =>
                   /\ value.k = "DataFrame"
                   /\ Len(value.dtypes) = 1
                   /\ value.dtypes[1] \in NumericDtypes
                   /\ value.index = x.index
            /\ (ypred.k = "DataFrame" /\ Len(ypred.dtypes) # 1) => res.outcome = "raise"
            /\ (ypred.k # "None" /\ ypred.index # x.index) => res.outcome = "raise"
            /\ ypred.k \notin {"None", "DataFrame", "Series"} => res.outcome = "raise"
            /\ (ypred.k = "Series" /\ res.outcome = "return") =>
                   /\ value.id # ypred.id
                   /\ value.data = ypred.data
                   /\ value.index = ypred.index
                   /\ value.dtypes = ypred.dtypes
            /\ res.ypred = ypred

C5_Witness ==
    /\ Done("check_ypred")
    /\ arg.ypred.k = "Series"
    /\ arg.ypred.dtypes = <<"int64">>
    /\ arg.ypred.index = <<"r2", "r1">>
    /\ res.outcome = "return"
    /\ res.value.k = "DataFrame"

\* C6: for a regression check_contribution_object raises the type error iff
\* contributions is not one array or table; for a classification it raises the
\* type error iff contributions is not a list, the length error iff it is a list
\* whose length is not the number of classes, and passes iff it is a list of
\* that length, whatever the list holds.
C6_ContributionObject ==
    Done("check_contribution_object") =>
        LET c == arg.contributions
        IN  /\ arg.case = "regression" =>
                   /\ res.outcome = "raise" <=> c.k \notin {"ndarray", "DataFrame"}
                   /\ res.outcome = "raise" => res.error = regression_message
            /\ (arg.case = "classification" /\ arg.classes.k = "list") =>
                   /\ Raised({classification_message}) <=> c.k # "list"
                   /\ Raised({length_message}) <=>
                          (c.k = "list" /\ Len(c.v) # Len(arg.classes.v))
                   /\ res.outcome = "return" <=>
                          (c.k = "list" /\ Len(c.v) = Len(arg.classes.v))

C6_Witness ==
    /\ Done("check_contribution_object")
    /\ arg.case = "classification"
    /\ arg.classes = PyList(<<0, 1>>)
    /\ arg.contributions = PyList(<<"DataFrame", "str">>)
    /\ res.outcome = "return"

\* C7: check_label_dict raises the inconsistent-dictionary error iff label_dict
\* is given, the case is 'classification' and the set of its keys is not the set
\* of classes; it does not raise when the sets are equal, whatever the order of
\* the keys and the repetitions in classes, nor for a regression or without
\* label_dict.
C7_LabelDict ==
    Done("check_label_dict") =>
        /\ Raised({"label_dict and don't match"}) <=>
               /\ arg.label_dict.k # "None"
               /\ arg.case = "classification"
               /\ arg.classes.k = "list"
               /\ Range(arg.label_dict.v) # Range(arg.classes.v)
        /\ (arg.label_dict.k = "None" \/ arg.case = "regression") => res.outcome = "return"
        /\ (arg.label_dict.k # "None" /\ arg.classes.k = "list"
               /\ Range(arg.label_dict.v) = Range(arg.classes.v)) => res.outcome = "return"

C7_Witness ==
    /\ Done("check_label_dict")
    /\ arg.case = "classification"
    /\ arg.label_dict = PyDict(<<1, 0>>)
    /\ arg.classes = PyList(<<0, 1>>)
    /\ res.outcome = "return"

\* C8: for a mapping check_mask_params raises the invalid-configuration error iff
\* a key is none of features_to_hide, threshold, positive, max_contrib, so the
\* empty mapping and every subset of the four keys pass whatever the values; what
\* is not a mapping always raises; the mapping keeps exactly the keys and values
\* it came with.
C8_MaskParams ==
    Done("check_mask_params") =>
        LET m == arg.mask_params
        IN  /\ m.k = "dict" =>
                   /\ Raised({"mask_params must only have the following key arguments"}) <=>
                          (\E item \in m.v : item[1] \notin
                              {"features_to_hide", "threshold", "positive", "max_contrib"})
                   /\ res.outcome = "return" <=>
                          {item[1] : item \in m.v} \subseteq
                              {"features_to_hide", "threshold", "positive", "max_contrib"}
            /\ m.k # "dict" => res.outcome = "raise"
            /\ res.mask_params = m

C8_Witness ==
    /\ Done("check_mask_params")
    /\ arg.mask_params = PyMap({<<"threshold", None>>, <<"positive", PyInt(1)>>})
    /\ res.outcome = "return"
    /\ res.mask_params = arg.mask_params

\* The gates of check_consistency_model_features an input violates.
Gate1Violated ==
    arg.features_dict.k # "None" /\ ~(arg.features_dict.v \subseteq arg.features_types.v)

Gate2Violated == arg.features_types.v # Range(arg.columns_dict.v)

Gate3Violated ==
    /\ arg.mask_params.k = "dict"
    /\ \E item \in arg.mask_params.v :
           /\ item[1] = "features_to_hide"
           /\ item[2].k # "None"
           /\ ~(Range(item[2].v) \subseteq arg.features_types.v)

Gate4Violated == arg.model.type = unregistered_model

\* C9: the gates are evaluated in the order 1, 2, 3, 4, 5/6 and the first one
\* violated raises its error: nothing after it is evaluated, so the lookup of the
\* model's features is not reached when gate 1, 2 or 3 is violated.  When the
\* model's features are a count the preprocessing type is not consulted and the
\* call passes iff columns_dict has that many distinct values.
C9_GateOrder ==
    Done("check_consistency_model_features") =>
        /\ Gate1Violated => (Raised({features_dict_message}) /\ res.gates = <<1>>)
        /\ (~Gate1Violated /\ Gate2Violated) =>
               (Raised({features_types_message}) /\ res.gates = <<1, 2>>)
        /\ (~Gate1Violated /\ ~Gate2Violated /\ Gate3Violated) =>
               (Raised({mask_params_message}) /\ res.gates = <<1, 2, 3>>)
        /\ \A i, j \in DOMAIN res.gates : i < j => res.gates[i] < res.gates[j]
        /\ (4 \in Range(res.gates) /\ arg.model.type = random_forest) =>
               /\ 5 \notin Range(res.gates)
               /\ res.outcome = "return" <=>
                      Cardinality(Range(arg.columns_dict.v)) = arg.model.n_features_
               /\ res.outcome = "raise" => res.error = same_length_count_message

C9_Witness ==
    /\ Done("check_consistency_model_features")
    /\ Gate1Violated /\ Gate2Violated /\ Gate3Violated /\ Gate4Violated
    /\ res.error = features_dict_message

\* Whether check_mask_params accepts the mask_params of the call and hands them
\* on as they are.
MaskParamsAccepted ==
    /\ arg.mask_params.k = "dict"
    /\ check_mask_params(arg.mask_params).outcome = "return"
    /\ check_mask_params(arg.mask_params).mask_params = arg.mask_params

\* C10 as stated: with mask_params that check_mask_params accepts and inputs
\* that pass gates 1 and 2, gate 3 passes or raises the inconsistent-dictionary
\* error, and raises it only when features_to_hide is given, is not None and
\* lists a feature that features_types does not have: it ends in no other
\* failure, such as a missing key.
C10_Gate3AfterMaskCheck ==
    (Done("check_consistency_model_features") /\ MaskParamsAccepted
        /\ ~Gate1Violated /\ ~Gate2Violated) =>
        IF Gate3Violated
        THEN Raised({mask_params_message})
        ELSE 4 \in Range(res.gates)

====
